---- MODULE Spec2Model ----
(***************************************************************************)
(* pinproxy: the ProxyHttp hooks of src/main.rs (upstream_peer,            *)
(* upstream_request_filter, response_filter, logging) and the per-request  *)
(* lifecycle in which the proxy engine invokes them.                       *)
(*                                                                         *)
(* Text is a sequence of one-character strings, a header value a sequence  *)
(* of byte tokens.  Option<T> is a sequence of length 0 (None) or 1 (Some).*)
(***************************************************************************)
EXTENDS Integers, Sequences, FiniteSets, TLC

\* ------------------------------------------------------------------ bounds
MaxHostLen == 6
MaxVals == 2
NumReqs == 2

\* --------------------------------------------------------------- constants
U16_MAX == 65535
DEFAULT_PORT == 80

None == <<>>
Some(x) == <<x>>
IsSome(o) == Len(o) = 1
Unwrap(o) == o[1]

Reqs == 1..NumReqs

\* A byte outside visible ASCII (obs-text, 0x80..0xFF) that a header value may hold.
OBS_TEXT == {"0xE9"}

\* The bytes Host values are built from in the routing specification.
HostAlphabet == {"a", ":", "6", "+", "0xE9"}

Digits == <<"0", "1", "2", "3", "4", "5", "6", "7", "8", "9">>
IsDigit(c) == \E i \in 1..10 : Digits[i] = c
DigitVal(c) == (CHOOSE i \in 1..10 : Digits[i] = c) - 1

\* "example.com:80", the literal of unwrap_or at main.rs:42
FALLBACK_HOST == <<"e", "x", "a", "m", "p", "l", "e", ".", "c", "o", "m", ":", "8", "0">>
EXAMPLE_COM == <<"e", "x", "a", "m", "p", "l", "e", ".", "c", "o", "m">>

BSeq(S, n) == UNION {[1..k -> S] : k \in 0..n}

\* ------------------------------------------------------------ header maps
\* A header map is a sequence of entries with pairwise distinct lower-case
\* names; an entry holds the values appended under that name, each with the
\* spelling of the name it was written with (the case map kept alongside).
Spellings == {"Host", "host", "Proxy-Connection", "proxy-connection",
              "PROXY-CONNECTION", "Accept", "X-Proxy-Server", "x-proxy-server",
              "Content-Type", "Server"}

\* HeaderName conversion: names are compared in lower case.
Lower(n) ==
  CASE n \in {"Host", "host"} -> "host"
    [] n \in {"Proxy-Connection", "proxy-connection", "PROXY-CONNECTION"} -> "proxy-connection"
    [] n \in {"Accept"} -> "accept"
    [] n \in {"X-Proxy-Server", "x-proxy-server"} -> "x-proxy-server"
    [] n \in {"Content-Type"} -> "content-type"
    [] n \in {"Server"} -> "server"

Find(h, name) == {i \in 1..Len(h) : h[i].name = Lower(name)}

\* HeaderMap::get: the first value stored under the name, if any.
Get(h, name) ==
  IF Find(h, name) = {} THEN None
  ELSE Some(h[CHOOSE i \in Find(h, name) : TRUE].vals[1].value)

\* HeaderValue::to_str: Some(text) when every byte is visible ASCII.
to_str(v) == IF \E i \in 1..Len(v) : v[i] \in OBS_TEXT THEN None ELSE Some(v)

\* --------------------------------------------------------------- routing
contains(s, c) == \E i \in 1..Len(s) : s[i] = c

RECURSIVE split(_, _)
split(s, c) ==
  IF ~contains(s, c) THEN <<s>>
  ELSE LET k == CHOOSE i \in 1..Len(s) : s[i] = c /\ \A j \in 1..(i - 1) : s[j] # c
       IN <<SubSeq(s, 1, k - 1)>> \o split(SubSeq(s, k + 1, Len(s)), c)

RECURSIVE ParseDigits(_, _, _)
ParseDigits(s, i, acc) ==
  IF i > Len(s) THEN Some(acc)
  ELSE IF ~IsDigit(s[i]) THEN None
  ELSE LET n == acc * 10 + DigitVal(s[i])
       IN IF n > U16_MAX THEN None ELSE ParseDigits(s, i + 1, n)

\* str::parse::<u16>: an optional leading '+', then one or more decimal
\* digits whose value fits 16 bits.
parse_u16(s) ==
  IF s = <<>> THEN None
  ELSE LET d == IF s[1] = "+" THEN Tail(s) ELSE s
       IN IF d = <<>> THEN None ELSE ParseDigits(d, 1, 0)

unwrap_or(o, d) == IF IsSome(o) THEN Unwrap(o) ELSE d

\* unwrap_or("") in place of the fallback literal
HostOf_EmptyFallback(h) ==
  LET hv == Get(h, "Host")
  IN unwrap_or(IF IsSome(hv) THEN to_str(Unwrap(hv)) ELSE None, <<>>)

\* the first header of the request taken for the Host
HostOf_FirstHeader(h) ==
  unwrap_or(IF h = <<>> THEN None ELSE to_str(h[1].vals[1].value), FALLBACK_HOST)

\* main.rs:37-42
HostOf(h) ==
  LET hv == Get(h, "Host")
  IN unwrap_or(IF IsSome(hv) THEN to_str(Unwrap(hv)) ELSE None, FALLBACK_HOST)

\* the parsed port left unused
HostPort_PortDropped(host) ==
  IF contains(host, ":")
  THEN <<split(host, ":")[1], DEFAULT_PORT>>
  ELSE <<host, DEFAULT_PORT>>

\* the listener's default port in the branch without ':'
HostPort_Listen8080(host) ==
  IF contains(host, ":")
  THEN LET parts == split(host, ":")
       IN <<parts[1], unwrap_or(parse_u16(parts[2]), DEFAULT_PORT)>>
  ELSE <<host, 8080>>

\* main.rs:47-52
HostPort(host) ==
  IF contains(host, ":")
  THEN LET parts == split(host, ":")
       IN <<parts[1], unwrap_or(parse_u16(parts[2]), DEFAULT_PORT)>>
  ELSE <<host, DEFAULT_PORT>>

\* TLS chosen from the port instead of the literal false
NewHttpPeer_TlsOffDefaultPort(hostname, port) ==
  [address |-> <<hostname, port>>, tls |-> (port # DEFAULT_PORT), sni |-> hostname]

\* main.rs:54-58, the peer built from an address that resolved
NewHttpPeer(hostname, port) ==
  [address |-> <<hostname, port>>, tls |-> FALSE, sni |-> hostname]

\* ---------------------------------------------------------- header edits
\* What goes on the wire: every entry in map order, its values in the
\* order they were appended, each under the spelling it was stored with.
RECURSIVE Wire(_)
Wire(h) == IF h = <<>> THEN <<>> ELSE h[1].vals \o Wire(Tail(h))

\* Vec::swap_remove: the last element takes the place of the removed one.
swap_remove(h, i) ==
  [j \in 1..(Len(h) - 1) |-> IF j = i THEN h[Len(h)] ELSE h[j]]

\* only the values spelled exactly like the argument are removed
remove_header_ExactCase(h, name) ==
  IF Find(h, name) = {} THEN h
  ELSE LET i == CHOOSE k \in Find(h, name) : TRUE
           keep(x) == x.case # name
           kept == SelectSeq(h[i].vals, keep)
       IN IF kept = <<>> THEN swap_remove(h, i) ELSE [h EXCEPT ![i].vals = kept]

\* RequestHeader::remove_header over HeaderMap::remove: the entry found
\* under the lower-cased name goes with all its values, by swap_remove.
remove_header(h, name) ==
  IF Find(h, name) = {} THEN h
  ELSE swap_remove(h, CHOOSE i \in Find(h, name) : TRUE)

\* append in place of insert
insert_header_Append(h, name, value) ==
  LET x == [case |-> name, value |-> value]
  IN IF Find(h, name) = {} THEN Append(h, [name |-> Lower(name), vals |-> <<x>>])
     ELSE [h EXCEPT ![CHOOSE i \in Find(h, name) : TRUE].vals = Append(@, x)]

\* ResponseHeader::insert_header over HeaderMap::insert: an entry found
\* under the name keeps its place and holds the new value alone; otherwise
\* a new entry is pushed at the end.
insert_header(h, name, value) ==
  LET e == [name |-> Lower(name), vals |-> <<[case |-> name, value |-> value]>>]
  IN IF Find(h, name) = {} THEN Append(h, e)
     ELSE [h EXCEPT ![CHOOSE i \in Find(h, name) : TRUE] = e]

PINPROXY == <<"p", "i", "n", "p", "r", "o", "x", "y">>

\* "unknown", the literal parsed at main.rs:96
UNKNOWN == <<"u", "n", "k", "n", "o", "w", "n">>
SUN_PATH_LEN == 108

IsOctet(t) ==
  /\ Len(t) \in 1..3
  /\ IsSome(ParseDigits(t, 1, 0))
  /\ Unwrap(ParseDigits(t, 1, 0)) <= 255

\* std::net::SocketAddr::from_str, IPv4 form a.b.c.d:port
IsInetAddr(s) ==
  LET parts == split(s, ":")
  IN /\ Len(parts) = 2
     /\ parts[2] # <<>> /\ IsSome(ParseDigits(parts[2], 1, 0))
     /\ LET octets == split(parts[1], ".")
        IN Len(octets) = 4 /\ \A i \in 1..4 : IsOctet(octets[i])

\* std::os::unix::net::SocketAddr::from_pathname
IsUnixPath(s) == Len(s) < SUN_PATH_LEN /\ \A i \in 1..Len(s) : s[i] # "NUL"

Inet(s) == [kind |-> "Inet", addr |-> s]
Unix(s) == [kind |-> "Unix", path |-> s]

\* a parser that knows only IP:port
ParseSocketAddr_InetOnly(s) ==
  IF IsInetAddr(s) THEN Some(Inet(s)) ELSE None

\* FromStr of the engine's SocketAddr: an IP:port text, else a
\* Unix-domain socket path.
ParseSocketAddr(s) ==
  IF IsInetAddr(s) THEN Some(Inet(s))
  ELSE IF IsUnixPath(s) THEN Some(Unix(s))
  ELSE None

\* a success status in place of the sentinel
LogStatus_Default200(written) ==
  unwrap_or(IF IsSome(written) THEN Some(Unwrap(written).status) ELSE None, 200)

\* main.rs:99-102
LogStatus(written) ==
  unwrap_or(IF IsSome(written) THEN Some(Unwrap(written).status) ELSE None, 0)

\* ----------------------------------------------------------------- state
VARIABLES
  pc,                \* lifecycle state of each request
  ctx,               \* the per-request context, once created
  request,           \* session.req_header(): method, uri, headers
  client_addr,       \* session.client_addr()
  reply,             \* what the upstream answers, None when it cannot be reached
  peer,              \* the HttpPeer returned by upstream_peer
  upstream_request,  \* headers of the request sent upstream
  upstream_response, \* response header received from the upstream
  response_written,  \* session.response_written()
  err,               \* the error the engine ended the cycle with
  log                \* records emitted through info!

vars == <<pc, ctx, request, client_addr, reply, peer, upstream_request,
          upstream_response, response_written, err, log>>

Entry(name, vals) == [name |-> name, vals |-> vals]
Val(sp, v) == [case |-> sp, value |-> v]
HostEntry(sp, v) == Entry(Lower(sp), <<Val(sp, v)>>)

Running(r) == pc[r] \notin {"INIT", "COMPLETED", "ABORTED"} /\ err[r] = None

\* new_ctx, main.rs:29
NewCtx(r) ==
  /\ pc[r] = "INIT"
  /\ pc' = [pc EXCEPT ![r] = "CONTEXT_CREATED"]
  /\ ctx' = [ctx EXCEPT ![r] = Some("unit")]
  /\ UNCHANGED <<request, client_addr, reply, peer, upstream_request,
                 upstream_response, response_written, err, log>>

\* a peer kept in the service and reused by whichever request comes next
UpstreamPeer_Cached(r) ==
  /\ pc[r] = "CONTEXT_CREATED"
  /\ err[r] = None
  /\ LET host == HostOf(request[r].headers)
         hp == HostPort(host)
         cached == {q \in Reqs : IsSome(peer[q])}
     IN /\ log' = [log EXCEPT ![r] = Append(@, [kind |-> "route", host |-> host])]
        /\ \E resolves \in BOOLEAN :
             IF resolves
             THEN /\ peer' = [peer EXCEPT ![r] =
                                IF cached = {} THEN Some(NewHttpPeer(hp[1], hp[2]))
                                ELSE peer[CHOOSE q \in cached : TRUE]]
                  /\ pc' = [pc EXCEPT ![r] = "PEER_RESOLVED"]
             ELSE /\ peer' = peer
                  /\ pc' = [pc EXCEPT ![r] = "ABORTED"]
  /\ UNCHANGED <<ctx, request, client_addr, reply, upstream_request,
                 upstream_response, response_written, err>>

\* routing that also rewrites Host to the hostname it routed to
UpstreamPeer_HostRewritten(r) ==
  /\ pc[r] = "CONTEXT_CREATED"
  /\ err[r] = None
  /\ LET host == HostOf(request[r].headers)
         hp == HostPort(host)
     IN /\ log' = [log EXCEPT ![r] = Append(@, [kind |-> "route", host |-> host])]
        /\ request' = [request EXCEPT ![r].headers = insert_header(@, "Host", hp[1])]
        /\ \E resolves \in BOOLEAN :
             IF resolves
             THEN /\ peer' = [peer EXCEPT ![r] = Some(NewHttpPeer(hp[1], hp[2]))]
                  /\ pc' = [pc EXCEPT ![r] = "PEER_RESOLVED"]
             ELSE /\ peer' = peer
                  /\ pc' = [pc EXCEPT ![r] = "ABORTED"]
  /\ UNCHANGED <<ctx, client_addr, reply, upstream_request,
                 upstream_response, response_written, err>>

\* upstream_peer, main.rs:31-61.  HttpPeer::new resolves (hostname, port)
\* to a socket address and unwraps the result: a name that does not
\* resolve aborts the request.
UpstreamPeer(r) ==
  /\ pc[r] = "CONTEXT_CREATED"
  /\ err[r] = None
  /\ LET host == HostOf(request[r].headers)
         hp == HostPort(host)
     IN /\ log' = [log EXCEPT ![r] = Append(@, [kind |-> "route", host |-> host])]
        /\ \E resolves \in BOOLEAN :
             IF resolves
             THEN /\ peer' = [peer EXCEPT ![r] = Some(NewHttpPeer(hp[1], hp[2]))]
                  /\ pc' = [pc EXCEPT ![r] = "PEER_RESOLVED"]
             ELSE /\ peer' = peer
                  /\ pc' = [pc EXCEPT ![r] = "ABORTED"]
  /\ UNCHANGED <<ctx, request, client_addr, reply, upstream_request,
                 upstream_response, response_written, err>>

\* upstream_request_filter, main.rs:63-72, on the engine's copy of the
\* request header.
UpstreamRequestFilter(r) ==
  /\ pc[r] = "PEER_RESOLVED"
  /\ err[r] = None
  /\ upstream_request' = [upstream_request EXCEPT
                            ![r] = Some(remove_header(request[r].headers, "Proxy-Connection"))]
  /\ pc' = [pc EXCEPT ![r] = "REQUEST_FILTERED"]
  /\ UNCHANGED <<ctx, request, client_addr, reply, peer, upstream_response,
                 response_written, err, log>>

\* forwarding as soon as the peer is known, before the outbound filter
Forward_Unfiltered(r) ==
  /\ pc[r] = "PEER_RESOLVED"
  /\ err[r] = None
  /\ IsSome(reply[r])
  /\ upstream_response' = [upstream_response EXCEPT ![r] = reply[r]]
  /\ pc' = [pc EXCEPT ![r] = "FORWARDED"]
  /\ UNCHANGED <<ctx, request, client_addr, reply, peer, upstream_request,
                 response_written, err, log>>

\* The engine exchanges the request with the upstream and obtains its
\* response header.
Forward(r) ==
  /\ pc[r] = "REQUEST_FILTERED"
  /\ err[r] = None
  /\ IsSome(reply[r])
  /\ upstream_response' = [upstream_response EXCEPT ![r] = reply[r]]
  /\ pc' = [pc EXCEPT ![r] = "FORWARDED"]
  /\ UNCHANGED <<ctx, request, client_addr, reply, peer, upstream_request,
                 response_written, err, log>>

\* response_filter, main.rs:74-85.  insert_header returns a Result that is
\* unwrapped: Err aborts the request.
ResponseFilter(r) ==
  /\ pc[r] = "FORWARDED"
  /\ err[r] = None
  /\ \E inserted \in BOOLEAN :
       IF inserted
       THEN /\ upstream_response' = [upstream_response EXCEPT
                 ![r] = Some([Unwrap(@) EXCEPT
                          !.headers = insert_header(@, "X-Proxy-Server", PINPROXY)])]
            /\ pc' = [pc EXCEPT ![r] = "RESPONSE_FILTERED"]
       ELSE /\ upstream_response' = upstream_response
            /\ pc' = [pc EXCEPT ![r] = "ABORTED"]
  /\ UNCHANGED <<ctx, request, client_addr, reply, peer, upstream_request,
                 response_written, err, log>>

\* The engine writes the filtered response header to the client.
Relay(r) ==
  /\ pc[r] = "RESPONSE_FILTERED"
  /\ err[r] = None
  /\ response_written[r] = None
  /\ response_written' = [response_written EXCEPT ![r] = upstream_response[r]]
  /\ UNCHANGED <<pc, ctx, request, client_addr, reply, peer, upstream_request,
                 upstream_response, err, log>>

\* The engine's own error response.
ErrorResponse == [status |-> 502, headers |-> <<>>]

\* a failure after routing sends the request back to peer selection
Fail_Retry(r) ==
  /\ Running(r)
  /\ ~(pc[r] = "RESPONSE_FILTERED" /\ IsSome(response_written[r]))
  /\ IF pc[r] \in {"PEER_RESOLVED", "REQUEST_FILTERED"}
     THEN /\ pc' = [pc EXCEPT ![r] = "CONTEXT_CREATED"]
          /\ UNCHANGED <<err, response_written>>
     ELSE /\ err' = [err EXCEPT ![r] = Some("transport")]
          /\ \E answered \in BOOLEAN :
               response_written' = [response_written EXCEPT
                                      ![r] = IF answered THEN Some(ErrorResponse) ELSE None]
          /\ pc' = pc
  /\ UNCHANGED <<ctx, request, client_addr, reply, peer, upstream_request,
                 upstream_response, log>>

\* A transport failure ends the cycle in whatever state it is in; the
\* engine may answer the client with its own error response when nothing
\* has been written yet.
Fail(r) ==
  /\ Running(r)
  /\ ~(pc[r] = "RESPONSE_FILTERED" /\ IsSome(response_written[r]))
  /\ err' = [err EXCEPT ![r] = Some("transport")]
  /\ \E answered \in BOOLEAN :
       response_written' = [response_written EXCEPT
                              ![r] = IF answered THEN Some(ErrorResponse) ELSE None]
  /\ UNCHANGED <<pc, ctx, request, client_addr, reply, peer, upstream_request,
                 upstream_response, log>>

\* logging, main.rs:87-104, invoked by the engine when the cycle has ended.
\* The default of unwrap_or at line 96 is parsed and unwrapped before the
\* client address is looked at.
Logging(r) ==
  /\ pc[r] \notin {"INIT", "COMPLETED", "ABORTED"}
  /\ IsSome(err[r]) \/ (pc[r] = "RESPONSE_FILTERED" /\ IsSome(response_written[r]))
  /\ LET dflt == ParseSocketAddr(UNKNOWN)
     IN IF IsSome(dflt)
        THEN /\ log' = [log EXCEPT ![r] = Append(@,
                          [kind |-> "completion",
                           client |-> unwrap_or(client_addr[r], Unwrap(dflt)),
                           method |-> request[r].method,
                           uri |-> request[r].uri,
                           status |-> LogStatus(response_written[r])])]
             /\ pc' = [pc EXCEPT ![r] = "COMPLETED"]
        ELSE /\ log' = log
             /\ pc' = [pc EXCEPT ![r] = "ABORTED"]
  /\ UNCHANGED <<ctx, request, client_addr, reply, peer, upstream_request,
                 upstream_response, response_written, err>>

\* ------------------------------------------------------------------ inputs
First == CHOOSE r \in Reqs : TRUE

PlainRequest == [method |-> "GET", uri |-> "/", headers |-> <<>>]

\* One request is drawn from the given sets; the others stay at INIT.
InitWith(requests, clients, replies) ==
  /\ pc = [r \in Reqs |-> "INIT"]
  /\ ctx = [r \in Reqs |-> None]
  /\ \E q \in requests : request = [r \in Reqs |-> IF r = First THEN q ELSE PlainRequest]
  /\ \E c \in clients : client_addr = [r \in Reqs |-> IF r = First THEN c ELSE None]
  /\ \E a \in replies : reply = [r \in Reqs |-> IF r = First THEN a ELSE None]
  /\ peer = [r \in Reqs |-> None]
  /\ upstream_request = [r \in Reqs |-> None]
  /\ upstream_response = [r \in Reqs |-> None]
  /\ response_written = [r \in Reqs |-> None]
  /\ err = [r \in Reqs |-> None]
  /\ log = [r \in Reqs |-> <<>>]

\* ------------------------------------------------- routing specification
RouteRequests ==
  {PlainRequest} \cup
  {[method |-> "GET", uri |-> "/", headers |-> <<HostEntry("Host", v)>>] :
     v \in BSeq(HostAlphabet, MaxHostLen)}

InitRoute == InitWith(RouteRequests, {None}, {None})

NextRoute == NewCtx(First) \/ UpstreamPeer(First)

SpecRoute == InitRoute /\ [][NextRoute]_vars

\* ------------------------------------------ header filter specifications
KEEP_ALIVE == <<"k", "e", "e", "p", "-", "a", "l", "i", "v", "e">>
ANY_TYPE == <<"*", "/", "*">>
OTHER_PROXY == <<"o", "t", "h", "e", "r">>

ValSeqs(S) == UNION {[1..k -> S] : k \in 1..MaxVals}

\* Every header map over the names in N, each name holding one to MaxVals
\* of the values V[n].
RECURSIVE Maps(_, _)
Maps(N, V) ==
  {<<>>} \cup
  UNION {{<<Entry(n, vs)>> \o m : vs \in ValSeqs(V[n]), m \in Maps(N \ {n}, V)} : n \in N}

RequestNames == {"host", "proxy-connection", "accept"}
RequestVals ==
  [n \in RequestNames |->
     CASE n = "host" -> {Val("Host", <<"a">>)}
       [] n = "proxy-connection" -> {Val("Proxy-Connection", KEEP_ALIVE),
                                     Val("proxy-connection", KEEP_ALIVE),
                                     Val("PROXY-CONNECTION", KEEP_ALIVE)}
       [] n = "accept" -> {Val("Accept", ANY_TYPE), Val("Accept", <<"a">>)}]

FilterRequests ==
  {[method |-> "GET", uri |-> "/", headers |-> h] : h \in Maps(RequestNames, RequestVals)}

InitReqFilter == InitWith(FilterRequests, {None}, {None})

NextReqFilter ==
  NewCtx(First) \/ UpstreamPeer(First) \/ UpstreamRequestFilter(First)

SpecReqFilter == InitReqFilter /\ [][NextReqFilter]_vars

ResponseNames == {"x-proxy-server", "content-type", "server"}
ResponseVals ==
  [n \in ResponseNames |->
     CASE n = "x-proxy-server" -> {Val("X-Proxy-Server", OTHER_PROXY),
                                   Val("x-proxy-server", PINPROXY)}
       [] n = "content-type" -> {Val("Content-Type", ANY_TYPE), Val("Content-Type", <<"a">>)}
       [] n = "server" -> {Val("Server", <<"a">>)}]

Statuses == {200, 404}

FilterResponses ==
  {[status |-> st, headers |-> h] : st \in Statuses, h \in Maps(ResponseNames, ResponseVals)}

InitRespFilter == InitWith({PlainRequest}, {None}, {Some(a) : a \in FilterResponses})

NextRespFilter ==
  \/ NewCtx(First)
  \/ UpstreamPeer(First)
  \/ UpstreamRequestFilter(First)
  \/ Forward(First)
  \/ ResponseFilter(First)

SpecRespFilter == InitRespFilter /\ [][NextRespFilter]_vars

\* ------------------------------------------------ lifecycle specification
SampleRequests ==
  {PlainRequest,
   [method |-> "POST", uri |-> "/x",
    headers |-> <<HostEntry("Host", <<"a", ":", "6">>),
                  Entry("proxy-connection", <<Val("Proxy-Connection", KEEP_ALIVE),
                                              Val("proxy-connection", KEEP_ALIVE)>>),
                  Entry("accept", <<Val("Accept", ANY_TYPE)>>)>>]}

SampleResponses ==
  {[status |-> 200,
    headers |-> <<Entry("x-proxy-server", <<Val("X-Proxy-Server", OTHER_PROXY)>>),
                  Entry("content-type", <<Val("Content-Type", ANY_TYPE)>>)>>],
   [status |-> 404, headers |-> <<>>]}

CLIENT == Inet(<<"1", ".", "2", ".", "3", ".", "4", ":", "5">>)

Init ==
  InitWith(SampleRequests, {None, Some(CLIENT)},
           {None} \cup {Some(a) : a \in SampleResponses})

Next ==
  \/ NewCtx(First)
  \/ UpstreamPeer(First)
  \/ UpstreamRequestFilter(First)
  \/ Forward(First)
  \/ ResponseFilter(First)
  \/ Relay(First)
  \/ Fail(First)
  \/ Logging(First)

Spec == Init /\ [][Next]_vars

\* ------------------------------------------- concurrent requests
\* What one request brings with it: the request header, the client address
\* and what its upstream answers.
Exchange(q, c, a) == [request |-> q, client |-> c, reply |-> a]

HopRequest ==
  [method |-> "POST", uri |-> "/x",
   headers |-> <<Entry("proxy-connection", <<Val("Proxy-Connection", KEEP_ALIVE),
                                             Val("proxy-connection", KEEP_ALIVE)>>),
                 HostEntry("Host", <<"a", ":", "6">>),
                 Entry("accept", <<Val("Accept", ANY_TYPE)>>)>>]

HopResponse ==
  [status |-> 200,
   headers |-> <<Entry("x-proxy-server", <<Val("X-Proxy-Server", OTHER_PROXY)>>),
                 Entry("content-type", <<Val("Content-Type", ANY_TYPE)>>)>>]

\* An exchange whose headers have been through both filters once already,
\* as they reach a further instance of the proxy, from another client.
Refiltered(x) ==
  Exchange([method |-> "GET", uri |-> "/",
            headers |-> remove_header(x.request.headers, "Proxy-Connection")],
           Some(CLIENT),
           Some([Unwrap(x.reply) EXCEPT
                   !.headers = insert_header(@, "X-Proxy-Server", PINPROXY)]))

Exchanges ==
  <<Exchange(HopRequest, None, Some(HopResponse)),
    Refiltered(Exchange(HopRequest, None, Some(HopResponse))),
    Exchange(PlainRequest, None, None),
    Exchange([method |-> "POST", uri |-> "/x",
              headers |-> <<Entry("accept", <<Val("Accept", ANY_TYPE)>>)>>],
             Some(CLIENT), Some([status |-> 404, headers |-> <<>>]))>>

\* Every request draws its own exchange; all of them are in flight at once.
\* Requests are interchangeable, so one assignment stands for all its
\* renumberings.
InitConc ==
  /\ pc = [r \in Reqs |-> "INIT"]
  /\ ctx = [r \in Reqs |-> None]
  /\ \E x \in [Reqs -> DOMAIN Exchanges] :
       /\ \A r \in Reqs \ {NumReqs} : x[r] <= x[r + 1]
       /\ request = [r \in Reqs |-> Exchanges[x[r]].request]
       /\ client_addr = [r \in Reqs |-> Exchanges[x[r]].client]
       /\ reply = [r \in Reqs |-> Exchanges[x[r]].reply]
  /\ peer = [r \in Reqs |-> None]
  /\ upstream_request = [r \in Reqs |-> None]
  /\ upstream_response = [r \in Reqs |-> None]
  /\ response_written = [r \in Reqs |-> None]
  /\ err = [r \in Reqs |-> None]
  /\ log = [r \in Reqs |-> <<>>]

\* The engine's scheduler interleaves the hooks of the requests freely.
NextConc ==
  \E r \in Reqs :
    \/ NewCtx(r)
    \/ UpstreamPeer(r)
    \/ UpstreamRequestFilter(r)
    \/ Forward(r)
    \/ ResponseFilter(r)
    \/ Relay(r)
    \/ Fail(r)
    \/ Logging(r)

SpecConc == InitConc /\ [][NextConc]_vars

\* ---------------------------------------------------- routing properties
HasColon(v) == \E i \in 1..Len(v) : v[i] = ":"
FirstColon(v) == CHOOSE i \in 1..Len(v) : v[i] = ":" /\ \A j \in 1..(i - 1) : v[j] # ":"
BeforeColon(v) == SubSeq(v, 1, FirstColon(v) - 1)
AfterColon(v) == SubSeq(v, FirstColon(v) + 1, Len(v))
IsText(v) == \A i \in 1..Len(v) : v[i] \notin OBS_TEXT

HostHeader(r) == Get(request[r].headers, "Host")
Routed(r) == IsSome(peer[r])
Target(r) == Unwrap(peer[r])
IsTarget(r, hostname, port) ==
  Target(r).address = <<hostname, port>> /\ Target(r).tls = FALSE

\* C1 as stated: for every Host value host:port whose port parses as a
\* 16-bit unsigned integer, the target is (host, port, TLS off).
C1_AnyHostPort ==
  \A r \in Reqs : Routed(r) /\ IsSome(HostHeader(r)) =>
    LET v == Unwrap(HostHeader(r))
    IN HasColon(v) /\ IsSome(parse_u16(AfterColon(v))) =>
         IsTarget(r, BeforeColon(v), Unwrap(parse_u16(AfterColon(v))))

\* C1 amended: for every Host value made of visible ASCII bytes only, of
\* the form host:port whose port parses as a 16-bit unsigned integer, the
\* target is (host, port, TLS off).
C1_TextHostPort ==
  \A r \in Reqs : Routed(r) /\ IsSome(HostHeader(r)) =>
    LET v == Unwrap(HostHeader(r))
    IN IsText(v) /\ HasColon(v) /\ IsSome(parse_u16(AfterColon(v))) =>
         IsTarget(r, BeforeColon(v), Unwrap(parse_u16(AfterColon(v))))

C1_Witness ==
  \E r \in Reqs :
    /\ Routed(r) /\ IsSome(HostHeader(r))
    /\ LET v == Unwrap(HostHeader(r))
       IN /\ IsText(v) /\ HasColon(v) /\ IsSome(parse_u16(AfterColon(v)))
          /\ Len(BeforeColon(v)) > 0
          /\ Target(r).address[2] = 666

\* C2, on Host values of visible ASCII bytes: with ':' present the
\* hostname is the text before the first ':' and the port is the whole
\* text after it parsed as a 16-bit unsigned integer, 80 when that text
\* does not parse (a further ':' included).
C2_WholeRestParsed ==
  \A r \in Reqs : Routed(r) /\ IsSome(HostHeader(r)) =>
    LET v == Unwrap(HostHeader(r))
    IN IsText(v) /\ HasColon(v) =>
         IsTarget(r, BeforeColon(v), unwrap_or(parse_u16(AfterColon(v)), 80))

C4_NoHostFallback ==
  \A r \in Reqs : Routed(r) /\ HostHeader(r) = None =>
    IsTarget(r, EXAMPLE_COM, 80)

C4_Witness ==
  \E r \in Reqs : Routed(r) /\ HostHeader(r) = None /\ pc[r] = "PEER_RESOLVED"

RouteLogged(r) == \E i \in 1..Len(log[r]) : log[r][i].kind = "route"

\* C9: routing never fails: once upstream_peer has run for a request it
\* has returned a target.
C9_RoutingTotal ==
  \A r \in Reqs : RouteLogged(r) => Routed(r)

\* ----------------------------------------------------- filter properties
IsPC(x) == Lower(x.case) = "proxy-connection"
NotPC(x) == ~IsPC(x)
IsXPS(x) == Lower(x.case) = "x-proxy-server"
NotXPS(x) == ~IsXPS(x)

OutFiltered(r) == IsSome(upstream_request[r])
ReqBefore(r) == request[r].headers
ReqAfter(r) == Unwrap(upstream_request[r])
Kept(r) == {i \in 1..Len(ReqBefore(r)) : ReqBefore(r)[i].name # "proxy-connection"}
PosOf(h, n) == CHOOSE i \in 1..Len(h) : h[i].name = n

\* C5 as stated: after upstream_request_filter no Proxy-Connection header
\* (in any spelling) is left and the headers sent are the original ones
\* without it, in the original order; without the header nothing changes.
C5_OrderKept ==
  \A r \in Reqs : OutFiltered(r) =>
    /\ \A i \in 1..Len(Wire(ReqAfter(r))) : ~IsPC(Wire(ReqAfter(r))[i])
    /\ Wire(ReqAfter(r)) = SelectSeq(Wire(ReqBefore(r)), NotPC)
    /\ (Kept(r) = DOMAIN ReqBefore(r) => ReqAfter(r) = ReqBefore(r))

\* C5 amended: no Proxy-Connection header (in any spelling) is left; every
\* other header name is still there with its spellings and values, in
\* their order under that name, and nothing is added; names keep their
\* relative order except that the name stored last takes the place of the
\* removed one; without the header nothing changes.
C5_LastTakesPlace ==
  \A r \in Reqs : OutFiltered(r) =>
    LET b == ReqBefore(r)
        a == ReqAfter(r)
    IN /\ \A i \in 1..Len(Wire(a)) : ~IsPC(Wire(a)[i])
       /\ Len(a) = Cardinality(Kept(r))
       /\ {a[i] : i \in 1..Len(a)} = {b[i] : i \in Kept(r)}
       /\ \A i, j \in Kept(r) \ {Len(b)} :
            i < j => PosOf(a, b[i].name) < PosOf(a, b[j].name)
       /\ \A k \in DOMAIN b \ Kept(r) : k < Len(b) => a[k] = b[Len(b)]
       /\ (Kept(r) = DOMAIN b => a = b)

C5_Witness ==
  \E r \in Reqs :
    /\ OutFiltered(r)
    /\ Len(ReqBefore(r)) = 3
    /\ ReqBefore(r)[1].name = "proxy-connection"
    /\ Len(ReqBefore(r)[1].vals) = 2
    /\ ReqBefore(r)[1].vals[1].case # ReqBefore(r)[1].vals[2].case
    /\ Len(ReqAfter(r)) = 2

InFiltered(r) == pc[r] = "RESPONSE_FILTERED"
RespBefore(r) == Unwrap(reply[r])
RespAfter(r) == Unwrap(upstream_response[r])

\* C6: when response_filter has returned, X-Proxy-Server occurs exactly
\* once, with the value pinproxy, whatever occurrences there were before;
\* the status and all other headers are as received.
C6_ExactlyOnce ==
  \A r \in Reqs : InFiltered(r) =>
    LET b == Wire(RespBefore(r).headers)
        a == Wire(RespAfter(r).headers)
    IN /\ Cardinality({i \in 1..Len(a) : IsXPS(a[i])}) = 1
       /\ \A i \in 1..Len(a) : IsXPS(a[i]) => a[i].value = PINPROXY
       /\ RespAfter(r).status = RespBefore(r).status
       /\ SelectSeq(a, NotXPS) = SelectSeq(b, NotXPS)

C6_Witness ==
  \E r \in Reqs :
    /\ InFiltered(r)
    /\ Len(RespBefore(r).headers) = 3
    /\ RespBefore(r).headers[2].name = "x-proxy-server"
    /\ Len(RespBefore(r).headers[2].vals) = 2
    /\ Len(RespAfter(r).headers) = 3

\* -------------------------------------------------- lifecycle properties
Completions(r) == {i \in 1..Len(log[r]) : log[r][i].kind = "completion"}
Ended(r) == pc[r] \in {"COMPLETED", "ABORTED"}

\* C7: a request whose lifecycle has ended, in whatever state and with
\* whatever outcome, has had the completion logger fire exactly once.
C7_LoggedOnce ==
  \A r \in Reqs : Ended(r) => Cardinality(Completions(r)) = 1

\* C8 as stated: the logged status is 0 exactly when no response was
\* produced and the response's status code otherwise; when the upstream
\* connection or transport failed it is 0.
C8_ZeroOnFailure ==
  \A r \in Reqs : \A i \in Completions(r) :
    /\ log[r][i].status = 0 <=> response_written[r] = None
    /\ IsSome(response_written[r]) => log[r][i].status = Unwrap(response_written[r]).status
    /\ IsSome(err[r]) => log[r][i].status = 0

\* C8 amended: the logged status is 0 exactly when no response header was
\* written to the client and otherwise the status code of the response
\* written; after a connection or transport failure that is 0 only when
\* the engine sent no error response of its own, else that response's code.
C8_ZeroIffNothingWritten ==
  \A r \in Reqs : \A i \in Completions(r) :
    /\ log[r][i].status = 0 <=> response_written[r] = None
    /\ IsSome(response_written[r]) => log[r][i].status = Unwrap(response_written[r]).status
    /\ IsSome(err[r]) =>
         log[r][i].status = (IF response_written[r] = None THEN 0 ELSE ErrorResponse.status)

C8_Witness ==
  \E r \in Reqs : \E i \in Completions(r) :
    IsSome(err[r]) /\ IsSome(reply[r]) /\ log[r][i].status = 0

\* C10: a failed insertion of X-Proxy-Server does not end the request: a
\* request whose upstream response arrived is never aborted.
C10_InsertFailureSkipped ==
  \A r \in Reqs : IsSome(upstream_response[r]) => pc[r] # "ABORTED"

CycleEnded(r) ==
  /\ pc[r] \notin {"INIT", "COMPLETED", "ABORTED"}
  /\ IsSome(err[r]) \/ (pc[r] = "RESPONSE_FILTERED" /\ IsSome(response_written[r]))

\* C11: the completion logger never fails: once a request's cycle has
\* ended, with or without a client address and with or without a response
\* written, its next step is the logger recording it and completing.
C11_LoggerNeverAborts ==
  [][\A r \in Reqs : CycleEnded(r) /\ pc'[r] # pc[r] =>
       pc'[r] = "COMPLETED" /\ Len(log'[r]) = Len(log[r]) + 1]_vars

C11_Witness ==
  \E r \in Reqs :
    /\ pc[r] = "COMPLETED"
    /\ client_addr[r] = None
    /\ response_written[r] = None
    /\ \E i \in Completions(r) : log[r][i].client = Unix(UNKNOWN)

\* C12: what goes upstream never carries Proxy-Connection, and what the
\* client receives is either the engine's error response or the upstream
\* response with exactly X-Proxy-Server: pinproxy added or replaced and
\* nothing else changed.
C12_WireEffects ==
  \A r \in Reqs :
    /\ OutFiltered(r) => \A i \in 1..Len(Wire(ReqAfter(r))) : ~IsPC(Wire(ReqAfter(r))[i])
    /\ IsSome(response_written[r]) =>
         \/ Unwrap(response_written[r]) = ErrorResponse
         \/ /\ IsSome(reply[r])
            /\ LET w == Unwrap(response_written[r])
                   a == Wire(w.headers)
                   b == Wire(RespBefore(r).headers)
               IN /\ Cardinality({i \in 1..Len(a) : IsXPS(a[i])}) = 1
                  /\ \A i \in 1..Len(a) : IsXPS(a[i]) => a[i].value = PINPROXY
                  /\ w.status = RespBefore(r).status
                  /\ SelectSeq(a, NotXPS) = SelectSeq(b, NotXPS)

C12_Witness ==
  \E r \in Reqs :
    /\ pc[r] = "COMPLETED"
    /\ \E i \in 1..Len(Wire(ReqBefore(r))) : IsPC(Wire(ReqBefore(r))[i])
    /\ OutFiltered(r)
    /\ IsSome(response_written[r])
    /\ Unwrap(response_written[r]) # ErrorResponse
    /\ \E i \in 1..Len(Wire(RespBefore(r).headers)) : IsXPS(Wire(RespBefore(r).headers)[i])

LifecycleOrder ==
  <<"INIT", "CONTEXT_CREATED", "PEER_RESOLVED", "REQUEST_FILTERED",
    "FORWARDED", "RESPONSE_FILTERED", "COMPLETED">>
IsLifecycleState(s) == \E i \in 1..Len(LifecycleOrder) : LifecycleOrder[i] = s
OrderOf(s) == CHOOSE i \in 1..Len(LifecycleOrder) : LifecycleOrder[i] = s

\* C13: a request enters a lifecycle state only from the state just
\* before it in INIT, CONTEXT_CREATED, PEER_RESOLVED, REQUEST_FILTERED,
\* FORWARDED, RESPONSE_FILTERED, COMPLETED, or enters COMPLETED from a later
\* state than INIT; nothing follows COMPLETED; RESPONSE_FILTERED is entered
\* only with a response obtained from the upstream.
C13_InOrder ==
  [][\A r \in Reqs : pc'[r] # pc[r] =>
       /\ pc[r] # "COMPLETED"
       /\ IsLifecycleState(pc'[r]) =>
            /\ IsLifecycleState(pc[r])
            /\ \/ OrderOf(pc'[r]) = OrderOf(pc[r]) + 1
               \/ pc'[r] = "COMPLETED" /\ OrderOf(pc[r]) > 1
       /\ pc'[r] = "RESPONSE_FILTERED" =>
            IsSome(reply[r]) /\ IsSome(upstream_response[r]) /\ err[r] = None]_vars

C13_Witness ==
  \E r \in Reqs :
    /\ pc[r] = "COMPLETED"
    /\ err[r] = None
    /\ IsSome(upstream_request[r])
    /\ IsSome(upstream_response[r])
    /\ response_written[r] = upstream_response[r]

RouteRecords(r) == {i \in 1..Len(log[r]) : log[r][i].kind = "route"}

\* C16: upstream_peer runs at most once for a request, also after the
\* upstream connection has failed: it is never invoked again as a retry.
C16_RoutedOnce ==
  \A r \in Reqs : Cardinality(RouteRecords(r)) <= 1

C16_Witness ==
  \E r \in Reqs :
    /\ pc[r] = "COMPLETED"
    /\ reply[r] = None
    /\ IsSome(err[r])
    /\ Cardinality(RouteRecords(r)) = 1

\* C17: every target upstream_peer produces, whatever the Host value, has
\* TLS off and an SNI equal to its hostname.
C17_PlaintextSniIsHost ==
  \A r \in Reqs : Routed(r) =>
    Target(r).tls = FALSE /\ Target(r).sni = Target(r).address[1]

C17_Witness ==
  \E r \in Reqs :
    /\ Routed(r) /\ IsSome(HostHeader(r))
    /\ LET v == Unwrap(HostHeader(r))
       IN /\ IsText(v) /\ HasColon(v)
          /\ Target(r).address[2] # 80
          /\ Len(Target(r).sni) > 0
          /\ Target(r).sni = BeforeColon(v)

HostEntries(h) == {h[i] : i \in Find(h, "Host")}

\* C18: the step in which upstream_peer runs leaves the request's method,
\* URI and headers as they were, and the request sent upstream carries the
\* Host header the client sent.
C18_RequestUntouched ==
  [][\A r \in Reqs :
       /\ pc[r] = "CONTEXT_CREATED" /\ pc'[r] # pc[r] => request'[r] = request[r]
       /\ IsSome(upstream_request'[r]) =>
            HostEntries(Unwrap(upstream_request'[r])) = HostEntries(request[r].headers)]_vars

C18_Witness ==
  \E r \in Reqs :
    /\ OutFiltered(r)
    /\ IsSome(HostHeader(r))
    /\ HasColon(Unwrap(HostHeader(r)))
    /\ Target(r).address[1] # Unwrap(HostHeader(r))
    /\ Get(ReqAfter(r), "Host") = HostHeader(r)
    /\ Len(ReqAfter(r)) < Len(ReqBefore(r))

\* ------------------------------------------------ concurrency properties
\* What request r shows when it is processed alone: each result is
\* determined by r's own request, client address and upstream answer.
AsAlone(r) ==
  /\ ctx[r] \in {None, Some("unit")}
  /\ IsSome(peer[r]) =>
       LET hp == HostPort(HostOf(request[r].headers))
       IN peer[r] = Some([address |-> hp, tls |-> FALSE, sni |-> hp[1]])
  /\ IsSome(upstream_request[r]) =>
       upstream_request[r] = Some(remove_header(request[r].headers, "Proxy-Connection"))
  /\ pc[r] = "RESPONSE_FILTERED" =>
       upstream_response[r] =
         Some([Unwrap(reply[r]) EXCEPT
                 !.headers = insert_header(@, "X-Proxy-Server", PINPROXY)])
  /\ \A i \in 1..Len(log[r]) :
       IF log[r][i].kind = "route"
       THEN log[r][i].host = HostOf(request[r].headers)
       ELSE log[r][i] = [kind |-> "completion",
                         client |-> unwrap_or(client_addr[r], Unix(UNKNOWN)),
                         method |-> request[r].method,
                         uri |-> request[r].uri,
                         status |-> LogStatus(response_written[r])]

\* C14: with several requests in flight and any interleaving of their
\* hooks, the context holds no data and each request's target, filtered
\* request, filtered response and log records are those it has when
\* processed alone.
C14_Isolated ==
  \A r \in Reqs : AsAlone(r)

C14_Witness ==
  \E r, q \in Reqs :
    /\ r # q
    /\ HostHeader(r) # HostHeader(q)
    /\ reply[r] # reply[q]
    /\ pc[r] = "RESPONSE_FILTERED" /\ pc[q] = "COMPLETED"
    /\ Routed(r) /\ Routed(q) /\ peer[r] # peer[q]
    /\ OutFiltered(r) /\ OutFiltered(q)
    /\ Len(log[r]) = 1 /\ Len(log[q]) = 2

\* C15: two requests with the same Host value, or both without a Host
\* header, that have been routed have the same target, whatever their
\* methods, URIs, other headers, client addresses and the requests routed
\* before them.
C15_SameHostSameTarget ==
  \A r, q \in Reqs :
    Routed(r) /\ Routed(q) /\ HostHeader(r) = HostHeader(q) => peer[r] = peer[q]

C15_Witness ==
  \E r, q \in Reqs :
    /\ Routed(r) /\ Routed(q)
    /\ IsSome(HostHeader(r)) /\ HostHeader(r) = HostHeader(q)
    /\ request[r].method # request[q].method
    /\ request[r].uri # request[q].uri
    /\ request[r].headers[1] # request[q].headers[1]
    /\ client_addr[r] # client_addr[q]
    /\ pc[r] # pc[q]

\* C19: a request whose headers are what upstream_request_filter produced
\* for another comes out of the filter with those same headers, and a
\* response that is what response_filter produced for another comes out of
\* the filter as that same response, X-Proxy-Server occurring once.
C19_FiltersIdempotent ==
  \A r, q \in Reqs :
    /\ OutFiltered(r) /\ OutFiltered(q) /\ request[q].headers = ReqAfter(r) =>
         ReqAfter(q) = ReqAfter(r)
    /\ InFiltered(r) /\ InFiltered(q) /\ reply[q] = upstream_response[r] =>
         /\ upstream_response[q] = upstream_response[r]
         /\ Cardinality({i \in 1..Len(Wire(RespAfter(q).headers)) :
                           IsXPS(Wire(RespAfter(q).headers)[i])}) = 1

C19_Witness ==
  \E r, q \in Reqs :
    /\ r # q
    /\ InFiltered(r) /\ InFiltered(q) /\ OutFiltered(r) /\ OutFiltered(q)
    /\ ReqAfter(r) # ReqBefore(r)
    /\ request[q].headers = ReqAfter(r)
    /\ RespAfter(r) # RespBefore(r)
    /\ reply[q] = upstream_response[r]
    /\ upstream_response[q] = upstream_response[r]

====
